---- MODULE Spec2Model ----
(***************************************************************************)
(* Model of the electron-arch i18n engine (class I18n: init, t,            *)
(* changeLanguage, objectToMap, validateInitOptions) and of the error      *)
(* wrappers it throws (ErrorWrapper, I18nError, InvalidParameterError).    *)
(*                                                                         *)
(* Strings of the program are sequences of tokens.  The tokens "." and     *)
(* "/" are the dot and the path separator characters; every other token    *)
(* is a non-empty run of characters holding neither.  The empty string is  *)
(* <<>>, concatenation is \o, and String.split / path.normalize work on    *)
(* the separator tokens.                                                   *)
(***************************************************************************)
EXTENDS Integers, Sequences, FiniteSets, TLC

\* ------------------------------------------------------------------------
\* Bounds of the model.
\* ------------------------------------------------------------------------

\* Number of init calls made while the engine is not yet initialized.
MaxInitCalls == 2

\* ------------------------------------------------------------------------
\* JavaScript values.
\* ------------------------------------------------------------------------

Undefined == [type |-> "undefined"]
Null == [type |-> "null"]
S(s) == [type |-> "string", s |-> s]

\* _.isEmpty applied to a string, undefined or null.
isEmpty(v) == v.type \in {"undefined", "null"} \/ (v.type = "string" /\ v.s = <<>>)

\* JavaScript truthiness of a string, undefined or null.
Truthy(v) == v.type = "string" /\ v.s # <<>>

DOT == "."
SEP == "/"

\* String.prototype.split(sep): the pieces between the separator tokens.
RECURSIVE SplitFrom(_, _, _, _)
SplitFrom(str, sep, i, cur) ==
  IF i > Len(str) THEN <<cur>>
  ELSE IF str[i] = sep THEN <<cur>> \o SplitFrom(str, sep, i + 1, <<>>)
  ELSE SplitFrom(str, sep, i + 1, Append(cur, str[i]))

split(str, sep) == SplitFrom(str, sep, 1, <<>>)

\* Array.prototype.join(sep).
RECURSIVE join(_, _)
join(parts, sep) ==
  IF parts = <<>> THEN <<>>
  ELSE IF Len(parts) = 1 THEN parts[1]
  ELSE parts[1] \o <<sep>> \o join(Tail(parts), sep)

\* ------------------------------------------------------------------------
\* path.isAbsolute, path.normalize and path.join (posix flavour).
\* ------------------------------------------------------------------------

isAbsolute(p) == p # <<>> /\ p[1] = SEP

\* Resolve the "." and ".." segments of a split path, left to right.
RECURSIVE ResolveSegments(_, _, _)
ResolveSegments(segs, i, acc) ==
  IF i > Len(segs) THEN acc
  ELSE IF segs[i] = <<>> \/ segs[i] = <<DOT>> THEN ResolveSegments(segs, i + 1, acc)
  ELSE IF segs[i] = <<DOT, DOT>>
    THEN ResolveSegments(segs, i + 1,
           IF acc = <<>> THEN acc ELSE SubSeq(acc, 1, Len(acc) - 1))
  ELSE ResolveSegments(segs, i + 1, Append(acc, segs[i]))

normalize(p) ==
  IF p = <<>> THEN <<DOT>>
  ELSE IF isAbsolute(p) THEN <<SEP>> \o join(ResolveSegments(split(p, SEP), 1, <<>>), SEP)
  ELSE p

pathJoin(dir, fileName) == normalize(dir \o <<SEP>> \o fileName)

\* ------------------------------------------------------------------------
\* Error objects.
\* ------------------------------------------------------------------------

\* ErrorWrapper's constructor: parameter properties with their defaults
\* (an undefined argument takes the default null).
ErrorWrapper(message, causedBy, classifier) ==
  [className  |-> "",
   message    |-> message,
   causedBy   |-> IF causedBy = Undefined THEN Null ELSE causedBy,
   classifier |-> IF classifier = Undefined THEN Null ELSE classifier]

\* new I18nError(...): the inherited constructor runs first, then the
\* subclass's field initializers assign _classifier and _className.
I18nError(message, causedBy, classifier) ==
  [ErrorWrapper(message, causedBy, classifier) EXCEPT
     !.classifier = S(<<"I18N_ERROR">>),
     !.className = "I18nError"]

\* new InvalidParameterError(...), built the same way.
InvalidParameterError(message) ==
  [ErrorWrapper(message, Undefined, Undefined) EXCEPT
     !.classifier = S(<<"RUNTIME_ERROR">>),
     !.className = "InvalidParameterError"]

\* The getters of ErrorWrapper.
classifierOf(e) == e.classifier
causedByOf(e) == e.causedBy
messageOf(e) == e.message

\* Errors raised by the platform: fs errors carry an optional code.
FsError(code) == [type |-> "error", name |-> "Error", code |-> code]
SyntaxError == [type |-> "error", name |-> "SyntaxError", code |-> Undefined]
TypeError == [type |-> "error", name |-> "TypeError", code |-> Undefined]

Return(v) == [kind |-> "return", value |-> v]
Throw(e) == [kind |-> "throw", error |-> e]

\* ------------------------------------------------------------------------
\* JSON documents and Map objects.
\* ------------------------------------------------------------------------

JStr(s) == [type |-> "string", s |-> s]
JObj(props) == [type |-> "object", props |-> props]
JNull == [type |-> "null"]
JNum == [type |-> "number"]

\* A property of a parsed object, in the object's enumeration order.
Prop(k, v) == [key |-> k, value |-> v]

\* Text of a file: JSON.parse either returns a value or throws.
Text(json) == [wellFormed |-> TRUE, json |-> json]
Malformed == [wellFormed |-> FALSE]

JSONparse(text) ==
  IF text.wellFormed THEN Return(text.json) ELSE Throw(SyntaxError)

\* A Map<string, string> is a function from its keys to their values.
EmptyMap == [k \in {} |-> <<>>]
MapHas(m, k) == k \in DOMAIN m
MapSet(m, k, v) == [x \in (DOMAIN m) \cup {k} |-> IF x = k THEN v ELSE m[x]]
\* Map.prototype.get: the value, or undefined.
MapGet(m, k) == IF k \in DOMAIN m THEN S(m[k]) ELSE Undefined

\* A Map-valued field that may still be undefined.
MapObj(m) == [type |-> "Map", m |-> m]

\* Copy every entry of sub into map under the composed key
\* (the subMab.forEach callback of objectToMap).
RECURSIVE MergeSub(_, _, _, _)
MergeSub(map, sub, keys, recursiveKey) ==
  IF keys = {} THEN map
  ELSE LET subKey == CHOOSE k \in keys : TRUE
           target == IF Truthy(recursiveKey)
                       THEN recursiveKey.s \o <<DOT>> \o subKey
                       ELSE subKey
       IN MergeSub(MapSet(map, target, sub[subKey]), sub, keys \ {subKey}, recursiveKey)

\* objectToMap(obj, recursiveKey): Return(map) or Throw(TypeError).
RECURSIVE objectToMap(_, _)
RECURSIVE objectToMapLoop(_, _, _, _)
objectToMapLoop(obj, recursiveKey, i, map) ==
  IF i > Len(obj.props) THEN Return(map)
  ELSE LET key == obj.props[i].key
           val == obj.props[i].value
       IN IF val.type = "string"
            THEN objectToMapLoop(obj, recursiveKey, i + 1,
                   MapSet(map,
                          IF Truthy(recursiveKey)
                            THEN recursiveKey.s \o <<DOT>> \o key
                            ELSE key,
                          val.s))
            ELSE LET subMab == objectToMap(val, S(key))
                 IN IF subMab.kind = "throw" THEN subMab
                    ELSE objectToMapLoop(obj, recursiveKey, i + 1,
                           MergeSub(map, subMab.value, DOMAIN subMab.value, recursiveKey))

\* Object.keys(null) throws a TypeError; a number has no own keys.
objectToMap(obj, recursiveKey) ==
  IF obj.type = "null" THEN Throw(TypeError)
  ELSE IF obj.type = "object" THEN objectToMapLoop(obj, recursiveKey, 1, EmptyMap)
  ELSE Return(EmptyMap)

\* ------------------------------------------------------------------------
\* The file system as the engine sees it during one init call.
\* ------------------------------------------------------------------------

\* list: the outcome of fs.readdirSync; read: the outcome of
\* fs.readFileSync for each file name.
Dir(list, read) == [list |-> list, read |-> read]

\* ------------------------------------------------------------------------
\* State of the I18n singleton.
\* ------------------------------------------------------------------------

VARIABLES
  initialized,       \* _initialized
  options,           \* _options
  languagesLoaded,   \* _languagesLoaded
  messagesLoaded,    \* _messagesLoaded
  fallBackMessages,  \* _fallBackMessages
  usingLanguage,     \* _usingLanguage
  usingMessages,     \* _usingMessages
  initCalls,         \* init calls made so far on a not yet initialized engine
  call,              \* the last call made by the application
  result,            \* what that call returned or threw
  flatObj,           \* the obj argument of a direct objectToMap call
  flatResult,        \* what that objectToMap call returned or threw
  appReady,          \* app.isReady()
  mainWindow,        \* MainWindowController._mainWindow
  windows,           \* the BrowserWindow objects created so far
  winInitOk,         \* the windows whose initialize call returned normally
  winCall,           \* the last call made on MainWindowController
  winResult,         \* what that call returned or threw
  dbDirs,            \* DatabaseFileManager: the directories on disk
  dbDisk,            \* DatabaseFileManager: the files on disk, by path
  dbCall,            \* the last call made on the DatabaseFileManager
  dbResult,          \* what that call returned or threw
  cfgDir,            \* ConfigFileManager: _filePath exists on disk
  cfgFile,           \* ConfigFileManager: the text of _filePath/_fileName, if any
  cfgLastData,       \* the data of the last writeFile call that succeeded
  cfgCall,           \* the last call made on the ConfigFileManager
  cfgResult          \* what that call returned or threw

engine == <<initialized, options, languagesLoaded, messagesLoaded,
            fallBackMessages, usingLanguage, usingMessages>>
vars == <<initialized, options, languagesLoaded, messagesLoaded,
          fallBackMessages, usingLanguage, usingMessages, initCalls, call, result,
          flatObj, flatResult,
          appReady, mainWindow, windows, winInitOk, winCall, winResult,
          dbDirs, dbDisk, dbCall, dbResult,
          cfgDir, cfgFile, cfgLastData, cfgCall, cfgResult>>

i18nVars == <<engine, initCalls, call, result>>
flatVars == <<flatObj, flatResult>>
windowVars == <<appReady, mainWindow, windows, winInitOk, winCall, winResult>>
dbVars == <<dbDirs, dbDisk, dbCall, dbResult>>
cfgVars == <<cfgDir, cfgFile, cfgLastData, cfgCall, cfgResult>>

\* The fields of the singleton as one record.
Self ==
  [initialized      |-> initialized,
   options          |-> options,
   languagesLoaded  |-> languagesLoaded,
   messagesLoaded   |-> messagesLoaded,
   fallBackMessages |-> fallBackMessages,
   usingLanguage    |-> usingLanguage,
   usingMessages    |-> usingMessages]

EN == <<"en">>

\* An options object passed to init.
Options(lng, fallbackLng, loadPath) ==
  [type |-> "object", lng |-> lng, fallbackLng |-> fallbackLng, loadPath |-> loadPath]

\* validateInitOptions: Return(the options with the defaults filled in)
\* or Throw(error).
validateInitOptions(opts) ==
  IF opts.type \in {"undefined", "null"}
    THEN Throw(InvalidParameterError(<<"The options object must be informed">>))
  ELSE LET o1 == IF isEmpty(opts.lng) THEN [opts EXCEPT !.lng = S(EN)] ELSE opts
           o2 == IF isEmpty(o1.fallbackLng) THEN [o1 EXCEPT !.fallbackLng = S(EN)] ELSE o1
       IN IF isEmpty(o2.loadPath)
            THEN Throw(I18nError(<<"The options object loadPath property cannot be empty.">>,
                                 Undefined, S(<<"INIT_OBJECT_ERROR">>)))
          ELSE IF ~isAbsolute(o2.loadPath.s)
            THEN Throw(I18nError(<<"The loadPath should be an absolute directory">>,
                                 Undefined, S(<<"INIT_OBJECT_ERROR">>)))
          ELSE Return(o2)

\* The classification of a file system error shared by the two catch
\* blocks of init.
FsFailure(msg, error, notFoundText) ==
  IF error.code = S(<<"ENOENT">>)
    THEN I18nError(msg \o <<" ", notFoundText>>, error, error.code)
  ELSE IF error.code = S(<<"EPERM">>)
    THEN I18nError(msg \o <<" There was a permission problem.">>, error, error.code)
  ELSE I18nError(msg \o <<" Unexpected problem.">>, error,
                 IF Truthy(error.code) THEN error.code ELSE Null)

\* The file name check without the comparison of the base name.
isTranslationFile_AnyBaseName(nameParts) ==
  ~ (Len(nameParts) # 3 \/ nameParts[3] # <<"json">>)

\* A file name is loaded only if it has the form messages.<id>.json.
isTranslationFile(nameParts) ==
  ~ (Len(nameParts) # 3 \/ nameParts[3] # <<"json">> \/ nameParts[1] # <<"messages">>)

\* The callback of fileList.forEach for one file name: the fields after
\* it, and Return(Undefined) or the error it threw.
loadFile(st, dir, fileName) ==
  LET nameParts == split(fileName, DOT)
      filePath == pathJoin(st.options.loadPath.s, fileName)
  IN
  IF ~isTranslationFile(nameParts) THEN [st |-> st, result |-> Return(Undefined)]
  ELSE LET rawData == dir.read[fileName] IN
  IF rawData.kind = "throw"
    THEN [st |-> st,
          result |-> Throw(FsFailure(
             <<"An error occurred reading the translation file ">> \o filePath \o <<".">>,
             rawData.error, "The file does not exist."))]
  ELSE LET obj == JSONparse(rawData.value) IN
  IF obj.kind = "throw"
    THEN [st |-> st,
          result |-> Throw(I18nError(
             <<"It was not possible to parse the messages file ">> \o filePath
                \o <<". It could be corrupted.">>,
             obj.error, S(<<"PARSE_ERROR">>)))]
  ELSE LET messages == objectToMap(obj.value, Undefined) IN
  IF messages.kind = "throw" THEN [st |-> st, result |-> messages]
  ELSE LET id == nameParts[2]
           s1 == [st EXCEPT !.languagesLoaded = Append(@, id)]
           s2 == IF id # s1.options.fallbackLng.s
                   THEN [s1 EXCEPT !.messagesLoaded = MapSet(@, id, messages.value)]
                   ELSE [s1 EXCEPT !.fallBackMessages = MapObj(messages.value)]
           s3 == IF id = s2.usingLanguage
                   THEN [s2 EXCEPT !.usingMessages = MapObj(messages.value)]
                   ELSE s2
       IN [st |-> s3, result |-> Return(Undefined)]

\* fileList.forEach going on to the next name when the callback throws.
RECURSIVE forEachFile_KeepGoing(_, _, _, _)
forEachFile_KeepGoing(st, dir, fileList, i) ==
  IF i > Len(fileList) THEN [st |-> st, result |-> Return(Undefined)]
  ELSE LET r == loadFile(st, dir, fileList[i])
       IN forEachFile_KeepGoing(r.st, dir, fileList, i + 1)

\* fileList.forEach: the callback on each name in listing order, up to
\* the first one that throws.
RECURSIVE forEachFile(_, _, _, _)
forEachFile(st, dir, fileList, i) ==
  IF i > Len(fileList) THEN [st |-> st, result |-> Return(Undefined)]
  ELSE LET r == loadFile(st, dir, fileList[i])
       IN IF r.result.kind = "throw" THEN r
          ELSE forEachFile(r.st, dir, fileList, i + 1)

\* The prologue of I18n.init validating and storing the options before it
\* tests _initialized.
initPrologue_ValidateFirst(st, opts) ==
  LET v == validateInitOptions(opts) IN
  IF v.kind = "throw" THEN [st |-> st, result |-> v]
  ELSE LET o == [v.value EXCEPT !.loadPath = S(normalize(@.s))]
           s1 == [st EXCEPT !.options = o,
                            !.usingLanguage = IF Truthy(o.lng) THEN o.lng.s ELSE @]
       IN IF st.initialized
            THEN [st |-> s1,
                  result |-> Throw(I18nError(<<"The i18n engine is already initialized.">>,
                                             Undefined, Undefined))]
            ELSE [st |-> s1, result |-> Return(Undefined)]

\* The part of I18n.init(opts) that runs before the directory is read:
\* the double-initialization check, the validation and the storing of
\* the options.  Return(Undefined) means the call goes on to readdirSync.
initPrologue(st, opts) ==
  IF st.initialized
    THEN [st |-> st,
          result |-> Throw(I18nError(<<"The i18n engine is already initialized.">>,
                                     Undefined, Undefined))]
  ELSE LET v == validateInitOptions(opts) IN
  IF v.kind = "throw" THEN [st |-> st, result |-> v]
  ELSE LET o == [v.value EXCEPT !.loadPath = S(normalize(@.s))]
       IN [st |-> [st EXCEPT !.options = o,
                             !.usingLanguage = IF Truthy(o.lng) THEN o.lng.s ELSE @],
           result |-> Return(Undefined)]

\* I18n.init without the test that the fallback translations were found.
initScan_NoFallbackCheck(s1, dir) ==
  LET msg == <<"An error occurred reading the translation files from the directory ">>
               \o s1.options.loadPath.s \o <<".">>
  IN
  IF dir.list.kind = "throw"
    THEN [st |-> s1,
          result |-> Throw(FsFailure(msg, dir.list.error, "The directory does not exist."))]
  ELSE LET loop == forEachFile(s1, dir, dir.list.value, 1) IN
  IF loop.result.kind = "throw" THEN loop
  ELSE IF loop.st.usingMessages = Undefined
    THEN [st |-> loop.st,
          result |-> Throw(I18nError(
            <<"The translation file to the current configured language was not found.">>,
            Undefined, Undefined))]
  ELSE [st |-> [loop.st EXCEPT !.initialized = TRUE], result |-> Return(Undefined)]

\* The rest of I18n.init against the directory content dir, from
\* readdirSync to the end: the fields after the call and what the call
\* returned or threw.
initScan(s1, dir) ==
  LET msg == <<"An error occurred reading the translation files from the directory ">>
               \o s1.options.loadPath.s \o <<".">>
  IN
  IF dir.list.kind = "throw"
    THEN [st |-> s1,
          result |-> Throw(FsFailure(msg, dir.list.error, "The directory does not exist."))]
  ELSE LET loop == forEachFile(s1, dir, dir.list.value, 1) IN
  IF loop.result.kind = "throw" THEN loop
  ELSE IF loop.st.usingMessages = Undefined
    THEN [st |-> loop.st,
          result |-> Throw(I18nError(
            <<"The translation file to the current configured language was not found.">>,
            Undefined, Undefined))]
  ELSE IF loop.st.fallBackMessages = Undefined
    THEN [st |-> loop.st,
          result |-> Throw(I18nError(
            <<"The translation file to the fallback language was not found.">>,
            Undefined, Undefined))]
  ELSE [st |-> [loop.st EXCEPT !.initialized = TRUE], result |-> Return(Undefined)]

\* I18n.t(key) returning the empty string, instead of the key, for a key
\* that has no translation.
tBody_MissReturnsEmpty(st, key) ==
  IF ~st.initialized
    THEN Throw(I18nError(
           <<"The i18n engine was not initialized. Call the init method before using this service.">>,
           Undefined, Undefined))
  ELSE IF isEmpty(S(key)) THEN Return(<<>>)
  ELSE IF st.usingMessages = Undefined THEN Throw(TypeError)
  ELSE LET first == MapGet(st.usingMessages.m, key) IN
  IF ~Truthy(first) /\ st.usingLanguage # st.options.fallbackLng.s
    THEN IF st.fallBackMessages = Undefined THEN Throw(TypeError)
         ELSE LET translation == MapGet(st.fallBackMessages.m, key)
              IN IF ~Truthy(translation) THEN Return(<<>>) ELSE Return(translation.s)
    ELSE IF ~Truthy(first) THEN Return(<<>>) ELSE Return(first.s)

\* I18n.t(key) testing the key for emptiness before testing _initialized.
tBody_EmptyKeyFirst(st, key) ==
  IF isEmpty(S(key)) THEN Return(<<>>)
  ELSE IF ~st.initialized
    THEN Throw(I18nError(
           <<"The i18n engine was not initialized. Call the init method before using this service.">>,
           Undefined, Undefined))
  ELSE IF st.usingMessages = Undefined THEN Throw(TypeError)
  ELSE LET first == MapGet(st.usingMessages.m, key) IN
  IF ~Truthy(first) /\ st.usingLanguage # st.options.fallbackLng.s
    THEN IF st.fallBackMessages = Undefined THEN Throw(TypeError)
         ELSE LET translation == MapGet(st.fallBackMessages.m, key)
              IN IF ~Truthy(translation) THEN Return(key) ELSE Return(translation.s)
    ELSE IF ~Truthy(first) THEN Return(key) ELSE Return(first.s)

\* I18n.t(key) without the test for an empty key.
tBody_NoEmptyKeyTest(st, key) ==
  IF ~st.initialized
    THEN Throw(I18nError(
           <<"The i18n engine was not initialized. Call the init method before using this service.">>,
           Undefined, Undefined))
  ELSE IF st.usingMessages = Undefined THEN Throw(TypeError)
  ELSE LET first == MapGet(st.usingMessages.m, key) IN
  IF ~Truthy(first) /\ st.usingLanguage # st.options.fallbackLng.s
    THEN IF st.fallBackMessages = Undefined THEN Throw(TypeError)
         ELSE LET translation == MapGet(st.fallBackMessages.m, key)
              IN IF ~Truthy(translation) THEN Return(key) ELSE Return(translation.s)
    ELSE IF ~Truthy(first) THEN Return(key) ELSE Return(first.s)

\* I18n.t(key).  Calling get on a field that is still undefined throws a
\* TypeError.
tBody(st, key) ==
  IF ~st.initialized
    THEN Throw(I18nError(
           <<"The i18n engine was not initialized. Call the init method before using this service.">>,
           Undefined, Undefined))
  ELSE IF isEmpty(S(key)) THEN Return(<<>>)
  ELSE IF st.usingMessages = Undefined THEN Throw(TypeError)
  ELSE LET first == MapGet(st.usingMessages.m, key) IN
  IF ~Truthy(first) /\ st.usingLanguage # st.options.fallbackLng.s
    THEN IF st.fallBackMessages = Undefined THEN Throw(TypeError)
         ELSE LET translation == MapGet(st.fallBackMessages.m, key)
              IN IF ~Truthy(translation) THEN Return(key) ELSE Return(translation.s)
    ELSE IF ~Truthy(first) THEN Return(key) ELSE Return(first.s)

\* Array.prototype.indexOf(x) == -1.
NotInArray(arr, x) == \A i \in 1..Len(arr) : arr[i] # x

\* I18n.changeLanguage assigning _usingLanguage before it tests that the
\* language was loaded.
changeLanguageBody_AssignFirst(st, languageId) ==
  IF ~st.initialized
    THEN [st |-> st,
          result |-> Throw(I18nError(
            <<"The i18n engine was not initialized. Call the init method before using this service.">>,
            Undefined, Undefined))]
  ELSE IF isEmpty(S(languageId))
    THEN [st |-> st,
          result |-> Throw(InvalidParameterError(<<"The languageId parameter must not be empty.">>))]
  ELSE LET s1 == [st EXCEPT !.usingLanguage = languageId] IN
  IF NotInArray(st.languagesLoaded, languageId)
    THEN [st |-> s1,
          result |-> Throw(I18nError(<<"The language ">> \o languageId \o <<" was not loaded.">>,
                                     Undefined, Undefined))]
  ELSE IF st.usingLanguage = languageId THEN [st |-> st, result |-> Return(Undefined)]
  ELSE IF languageId # s1.options.fallbackLng.s
    THEN IF MapHas(s1.messagesLoaded, languageId)
           THEN [st |-> [s1 EXCEPT !.usingMessages = MapObj(s1.messagesLoaded[languageId])],
                 result |-> Return(Undefined)]
           ELSE [st |-> s1,
                 result |-> Throw(I18nError(
                   <<"The translations for the language ">> \o languageId \o <<" were not found.">>,
                   Undefined, Undefined))]
    ELSE [st |-> [s1 EXCEPT !.usingMessages = s1.fallBackMessages],
          result |-> Return(Undefined)]

\* I18n.changeLanguage without the test for an empty languageId.
changeLanguageBody_NoEmptyCheck(st, languageId) ==
  IF ~st.initialized
    THEN [st |-> st,
          result |-> Throw(I18nError(
            <<"The i18n engine was not initialized. Call the init method before using this service.">>,
            Undefined, Undefined))]
  ELSE IF NotInArray(st.languagesLoaded, languageId)
    THEN [st |-> st,
          result |-> Throw(I18nError(<<"The language ">> \o languageId \o <<" was not loaded.">>,
                                     Undefined, Undefined))]
  ELSE IF st.usingLanguage = languageId THEN [st |-> st, result |-> Return(Undefined)]
  ELSE LET s1 == [st EXCEPT !.usingLanguage = languageId] IN
  IF languageId # s1.options.fallbackLng.s
    THEN IF MapHas(s1.messagesLoaded, languageId)
           THEN [st |-> [s1 EXCEPT !.usingMessages = MapObj(s1.messagesLoaded[languageId])],
                 result |-> Return(Undefined)]
           ELSE [st |-> s1,
                 result |-> Throw(I18nError(
                   <<"The translations for the language ">> \o languageId \o <<" were not found.">>,
                   Undefined, Undefined))]
    ELSE [st |-> [s1 EXCEPT !.usingMessages = s1.fallBackMessages],
          result |-> Return(Undefined)]


\* I18n.changeLanguage(languageId): the fields after the call and what
\* the call returned or threw.
changeLanguageBody(st, languageId) ==
  IF ~st.initialized
    THEN [st |-> st,
          result |-> Throw(I18nError(
            <<"The i18n engine was not initialized. Call the init method before using this service.">>,
            Undefined, Undefined))]
  ELSE IF isEmpty(S(languageId))
    THEN [st |-> st,
          result |-> Throw(InvalidParameterError(<<"The languageId parameter must not be empty.">>))]
  ELSE IF NotInArray(st.languagesLoaded, languageId)
    THEN [st |-> st,
          result |-> Throw(I18nError(<<"The language ">> \o languageId \o <<" was not loaded.">>,
                                     Undefined, Undefined))]
  ELSE IF st.usingLanguage = languageId THEN [st |-> st, result |-> Return(Undefined)]
  ELSE LET s1 == [st EXCEPT !.usingLanguage = languageId] IN
  IF languageId # s1.options.fallbackLng.s
    THEN IF MapHas(s1.messagesLoaded, languageId)
           THEN [st |-> [s1 EXCEPT !.usingMessages = MapObj(s1.messagesLoaded[languageId])],
                 result |-> Return(Undefined)]
           ELSE [st |-> s1,
                 result |-> Throw(I18nError(
                   <<"The translations for the language ">> \o languageId \o <<" were not found.">>,
                   Undefined, Undefined))]
    ELSE [st |-> [s1 EXCEPT !.usingMessages = s1.fallBackMessages],
          result |-> Return(Undefined)]

\* ------------------------------------------------------------------------
\* The inputs of the model: option objects, directory contents, keys.
\* ------------------------------------------------------------------------

FR == <<"fr">>
DE == <<"de">>

\* messages.<id>.json
FileName(id) == <<"messages", DOT>> \o id \o <<DOT, "json">>

\* { "a": "A", "b": { "c": "C" }, "z": "" }
EnDoc ==
  JObj(<<Prop(<<"a">>, JStr(<<"A">>)),
         Prop(<<"b">>, JObj(<<Prop(<<"c">>, JStr(<<"C">>))>>)),
         Prop(<<"z">>, JStr(<<>>))>>)

\* { "a": "Ah", "e": "", "": "blank" }
FrDoc ==
  JObj(<<Prop(<<"a">>, JStr(<<"Ah">>)), Prop(<<"e">>, JStr(<<>>)),
         Prop(<<>>, JStr(<<"blank">>))>>)

\* { "k": 5, "n": null }
NullLeafDoc == JObj(<<Prop(<<"k">>, JNum), Prop(<<"n">>, JNull)>>)

\* Both languages, among entries that are not translation files:
\* README, messages.en.txt, messages.json, Messages.de.json and
\* messages.de.json.bak, all of them readable.
DirOk ==
  Dir(Return(<<FileName(EN), <<"README">>, FileName(FR),
               <<"messages", DOT, "en", DOT, "txt">>,
               <<"messages", DOT, "json">>,
               <<"Messages", DOT, "de", DOT, "json">>,
               <<"messages", DOT, "de", DOT, "json", DOT, "bak">>>>),
      (FileName(EN) :> Return(Text(EnDoc)))
        @@ (FileName(FR) :> Return(Text(FrDoc)))
        @@ (<<"README">> :> Return(Malformed))
        @@ (<<"messages", DOT, "en", DOT, "txt">> :> Return(Text(EnDoc)))
        @@ (<<"messages", DOT, "json">> :> Return(Text(EnDoc)))
        @@ (<<"Messages", DOT, "de", DOT, "json">> :> Return(Text(FrDoc)))
        @@ (<<"messages", DOT, "de", DOT, "json", DOT, "bak">> :> Return(Text(FrDoc))))

DirFrOnly == Dir(Return(<<FileName(FR)>>), (FileName(FR) :> Return(Text(FrDoc))))

DirEnOnly == Dir(Return(<<FileName(EN)>>), (FileName(EN) :> Return(Text(EnDoc))))

\* messages.fr.json is not valid JSON.
DirParse ==
  Dir(Return(<<FileName(EN), FileName(FR)>>),
      (FileName(EN) :> Return(Text(EnDoc))) @@ (FileName(FR) :> Return(Malformed)))

\* messages.fr.json, listed first, is not valid JSON; messages.de.json
\* follows it and there is no messages.en.json.
DirParseNoEn ==
  Dir(Return(<<FileName(FR), FileName(DE)>>),
      (FileName(FR) :> Return(Malformed)) @@ (FileName(DE) :> Return(Text(FrDoc))))

\* messages.en.json holds a number and a null instead of strings.
DirNullLeaf ==
  Dir(Return(<<FileName(EN)>>), (FileName(EN) :> Return(Text(NullLeafDoc))))

\* The codes a failing file system call may carry (or none).
FsCodes == {S(<<"ENOENT">>), S(<<"EPERM">>), S(<<"EISDIR">>), Undefined}

\* readdirSync fails.
DirListFails(code) == Dir(Throw(FsError(code)), <<>>)

\* readFileSync fails on the first translation file of the listing.
DirReadFails(code) ==
  Dir(Return(<<FileName(FR), FileName(EN)>>),
      (FileName(FR) :> Throw(FsError(code))) @@ (FileName(EN) :> Return(Text(EnDoc))))

Dirs ==
  {DirOk, DirFrOnly, DirEnOnly, DirParse, DirParseNoEn, DirNullLeaf}
    \cup {DirListFails(c) : c \in FsCodes}
    \cup {DirReadFails(c) : c \in FsCodes}

LanguageArgs == {Undefined, S(<<>>), S(EN), S(FR)}

\* "", "i18n" and "/app/./i18n" (which normalizes to "/app/i18n")
LoadPathArgs ==
  {S(<<>>), S(<<"i18n">>), S(<<SEP, "app", SEP, DOT, SEP, "i18n">>)}

OptionsArgs ==
  {Undefined}
    \cup {Options(l, f, p) : l \in LanguageArgs, f \in LanguageArgs, p \in LoadPathArgs}

\* "", "a", "b.c", "e", "z", "missing"
Keys == {<<>>, <<"a">>, <<"b", DOT, "c">>, <<"e">>, <<"z">>, <<"missing">>}

LanguageIds == {<<>>, EN, FR, DE}

\* ------------------------------------------------------------------------
\* The state machine.
\* ------------------------------------------------------------------------

\* No file on disk at a path.
NoFile == [type |-> "nofile"]

\* The state of each other part of the library before it is used.
FlattenIdle == flatObj = JObj(<<>>) /\ flatResult = [kind |-> "none"]

WindowIdle ==
  /\ appReady = FALSE
  /\ mainWindow = Undefined
  /\ windows = <<>>
  /\ winInitOk = {}
  /\ winCall = [op |-> "none"]
  /\ winResult = [kind |-> "none"]

DatabaseIdle ==
  /\ dbDirs = {}
  /\ dbDisk = <<>>
  /\ dbCall = [op |-> "none"]
  /\ dbResult = [kind |-> "none"]

ConfigIdle ==
  /\ cfgDir = FALSE
  /\ cfgFile = NoFile
  /\ cfgLastData = Undefined
  /\ cfgCall = [op |-> "none"]
  /\ cfgResult = [kind |-> "none"]

\* The state after construction of the singleton (the field initializers).
Init ==
  /\ initialized = FALSE
  /\ options = Undefined
  /\ languagesLoaded = <<>>
  /\ messagesLoaded = EmptyMap
  /\ fallBackMessages = Undefined
  /\ usingLanguage = EN
  /\ usingMessages = Undefined
  /\ initCalls = 0
  /\ call = [op |-> "none"]
  /\ result = [kind |-> "none"]
  /\ FlattenIdle
  /\ WindowIdle
  /\ DatabaseIdle
  /\ ConfigIdle

\* Store the fields a call leaves behind, the call and its outcome.
Commit(out, c) ==
  /\ initialized' = out.st.initialized
  /\ options' = out.st.options
  /\ languagesLoaded' = out.st.languagesLoaded
  /\ messagesLoaded' = out.st.messagesLoaded
  /\ fallBackMessages' = out.st.fallBackMessages
  /\ usingLanguage' = out.st.usingLanguage
  /\ usingMessages' = out.st.usingMessages
  /\ call' = c
  /\ result' = out.result
  /\ UNCHANGED <<flatVars, windowVars, dbVars, cfgVars>>

\* The application calls i18n.init(opts).  The directory content is what
\* the file system holds when readdirSync is reached.
init(opts) ==
  /\ initialized \/ initCalls < MaxInitCalls
  /\ initCalls' = IF initialized THEN initCalls ELSE initCalls + 1
  /\ LET pre == initPrologue(Self, opts) IN
     IF pre.result.kind = "throw"
       THEN Commit(pre, [op |-> "init", arg |-> opts, dir |-> Undefined])
       ELSE \E dir \in Dirs :
              Commit(initScan(pre.st, dir), [op |-> "init", arg |-> opts, dir |-> dir])

\* The application calls i18n.t(key).
t(key) ==
  /\ Commit([st |-> Self, result |-> tBody(Self, key)], [op |-> "t", arg |-> S(key)])
  /\ UNCHANGED initCalls

\* The application calls i18n.changeLanguage(languageId).
changeLanguage(languageId) ==
  /\ Commit(changeLanguageBody(Self, languageId),
            [op |-> "changeLanguage", arg |-> S(languageId)])
  /\ UNCHANGED initCalls

Next ==
  \/ \E opts \in OptionsArgs : init(opts)
  \/ \E key \in Keys : t(key)
  \/ \E languageId \in LanguageIds : changeLanguage(languageId)

Spec == Init /\ [][Next]_vars

\* ------------------------------------------------------------------------
\* objectToMap on its own: the flattening of one parsed object.
\* ------------------------------------------------------------------------

\* Nesting depth of the objects flattened.
MaxDepth == 2

FlatKeys == {<<>>, <<"a">>, <<"b">>}
FlatLeaves == {JStr(<<"X">>), JStr(<<"Y">>)}

\* The objects of nesting depth 1..d with one or two properties, string
\* leaves, and at most one nested object per level.
RECURSIVE FlatObjects(_)
FlatObjects(d) ==
  IF d = 0 THEN {}
  ELSE LET inner == FlatObjects(d - 1)
           values == FlatLeaves \cup inner
       IN {JObj(<<Prop(k, v)>>) : k \in FlatKeys, v \in values}
            \cup {JObj(<<Prop(k[1], v), Prop(k[2], l)>>) :
                    k \in {kk \in FlatKeys \X FlatKeys : kk[1] # kk[2]},
                    v \in values, l \in FlatLeaves}
            \cup {JObj(<<Prop(k[1], l), Prop(k[2], v)>>) :
                    k \in {kk \in FlatKeys \X FlatKeys : kk[1] # kk[2]},
                    l \in FlatLeaves, v \in inner}

InitFlatten ==
  /\ initialized = FALSE
  /\ options = Undefined
  /\ languagesLoaded = <<>>
  /\ messagesLoaded = EmptyMap
  /\ fallBackMessages = Undefined
  /\ usingLanguage = EN
  /\ usingMessages = Undefined
  /\ initCalls = 0
  /\ call = [op |-> "none"]
  /\ result = [kind |-> "none"]
  /\ flatObj \in FlatObjects(MaxDepth)
  /\ flatResult = [kind |-> "none"]
  /\ WindowIdle
  /\ DatabaseIdle
  /\ ConfigIdle

\* objectToMap(obj) as init calls it, without a recursiveKey.
flatten ==
  /\ flatResult.kind = "none"
  /\ flatResult' = objectToMap(flatObj, Undefined)
  /\ UNCHANGED <<i18nVars, flatObj, windowVars, dbVars, cfgVars>>

NextFlatten == flatten

SpecFlatten == InitFlatten /\ [][NextFlatten]_vars

\* ------------------------------------------------------------------------
\* MainWindowController: the main window of the application.
\* ------------------------------------------------------------------------

\* Number of BrowserWindow objects created.
MaxWindows == 2

\* The i18n engine before it is used.
I18nIdle ==
  /\ initialized = FALSE
  /\ options = Undefined
  /\ languagesLoaded = <<>>
  /\ messagesLoaded = EmptyMap
  /\ fallBackMessages = Undefined
  /\ usingLanguage = EN
  /\ usingMessages = Undefined
  /\ initCalls = 0
  /\ call = [op |-> "none"]
  /\ result = [kind |-> "none"]

\* The errors of the main window, built like the other ErrorWrappers.
MainWindowNotInitializedError ==
  [ErrorWrapper(<<"Main window not yet initialized">>, Undefined, Undefined) EXCEPT
     !.classifier = S(<<"INIT_ERROR">>),
     !.className = "MainWindowNotInitializedError"]

MainWindowAlreadyInitializedError ==
  [ErrorWrapper(<<"Main window already initialized">>, Undefined, Undefined) EXCEPT
     !.classifier = S(<<"INIT_ERROR">>),
     !.className = "MainWindowAlreadyInitializedError"]

AppNotReadyError ==
  [ErrorWrapper(<<"The app.on('ready') event was not fired yet.">>, Undefined, Undefined) EXCEPT
     !.classifier = S(<<"RUNTIME_ERROR">>),
     !.className = "AppNotReadyError"]

\* UnexpectedError declares _type and _className: the classifier stays
\* the constructor's.
UnexpectedError(message, causedBy) ==
  [ErrorWrapper(message, causedBy, Undefined) EXCEPT !.className = "UnexpectedError"]

\* An error thrown by electron or by require.
ElectronError == [type |-> "error", name |-> "Error", code |-> Undefined]

\* The BrowserWindow with identity id.
Window(id) == [type |-> "window", id |-> id]

\* A MainWindowPosition.
Pos == [type |-> "object", x |-> 0, y |-> 0, width |-> 800, height |-> 600]

PosArgs == {Undefined, Null, Pos}

\* Where electron fails during createWindow, if it does: in the
\* BrowserWindow constructor, or while the content is loaded (the require
\* of electron-reload, loadURL, openDevTools).
WindowFaults == {"none", "create", "load"}

\* The static fields of the controller and the platform state as one record.
Controller == [appReady |-> appReady, mainWindow |-> mainWindow, windows |-> windows]

\* The getter mainWindow.
mainWindowGetter(st) ==
  IF st.mainWindow.type # "window" THEN Throw(MainWindowNotInitializedError)
  ELSE Return(st.mainWindow)

\* createWindow(pos): the BrowserWindow is assigned to _mainWindow as soon
\* as it is constructed; the 'closed' listener is set last.
createWindow(st, pos, fault) ==
  IF pos.type # "object"
    THEN [st |-> st,
          result |-> Throw(InvalidParameterError(<<"The pos parameter must be informed.">>))]
  ELSE IF fault = "create" THEN [st |-> st, result |-> Throw(ElectronError)]
  ELSE LET id == Len(st.windows) + 1
           s1 == [st EXCEPT !.mainWindow = Window(id),
                            !.windows = Append(@, [closed |-> FALSE, onClosed |-> FALSE])]
       IN IF fault = "load" THEN [st |-> s1, result |-> Throw(ElectronError)]
          ELSE [st |-> [s1 EXCEPT !.windows[id].onClosed = TRUE],
                result |-> Return(Undefined)]

\* initialize without the test for a window already held.
initializeBody_NoHeldTest(st, pos, fault) ==
  IF ~st.appReady THEN [st |-> st, result |-> Throw(AppNotReadyError)]
  ELSE LET r == createWindow(st, pos, fault)
       IN IF r.result.kind = "throw"
            THEN [st |-> r.st,
                  result |-> Throw(UnexpectedError(
                    <<"Unexpected error during main window initialization">>, r.result.error))]
            ELSE r

\* initialize(pos).
initializeBody(st, pos, fault) ==
  IF ~st.appReady THEN [st |-> st, result |-> Throw(AppNotReadyError)]
  ELSE IF st.mainWindow.type = "window"
    THEN [st |-> st, result |-> Throw(MainWindowAlreadyInitializedError)]
  ELSE LET r == createWindow(st, pos, fault)
       IN IF r.result.kind = "throw"
            THEN [st |-> r.st,
                  result |-> Throw(UnexpectedError(
                    <<"Unexpected error during main window initialization">>, r.result.error))]
            ELSE r

\* The 'closed' listener set by createWindow.
closedListener(st) == [st EXCEPT !.mainWindow = Null]

InitWindow ==
  /\ I18nIdle
  /\ FlattenIdle
  /\ WindowIdle
  /\ DatabaseIdle
  /\ ConfigIdle

\* electron fires app.on('ready').
ready ==
  /\ ~appReady
  /\ appReady' = TRUE
  /\ UNCHANGED <<mainWindow, windows, winInitOk, winCall, winResult>>
  /\ UNCHANGED <<i18nVars, flatVars, dbVars, cfgVars>>

\* The application calls MainWindowController.initialize(pos).
initialize(pos, fault) ==
  LET out == initializeBody(Controller, pos, fault) IN
  /\ Len(out.st.windows) <= MaxWindows
  /\ mainWindow' = out.st.mainWindow
  /\ windows' = out.st.windows
  /\ winInitOk' = IF out.result.kind = "return"
                    THEN winInitOk \cup {Len(out.st.windows)} ELSE winInitOk
  /\ winCall' = [op |-> "initialize", pos |-> pos, fault |-> fault]
  /\ winResult' = out.result
  /\ UNCHANGED appReady
  /\ UNCHANGED <<i18nVars, flatVars, dbVars, cfgVars>>

\* The application reads MainWindowController.mainWindow.
getMainWindow ==
  /\ winCall' = [op |-> "mainWindow"]
  /\ winResult' = mainWindowGetter(Controller)
  /\ UNCHANGED <<appReady, mainWindow, windows, winInitOk>>
  /\ UNCHANGED <<i18nVars, flatVars, dbVars, cfgVars>>

\* Window id is closed: electron emits 'closed' to its listeners.
closed(id) ==
  /\ ~windows[id].closed
  /\ LET s1 == [Controller EXCEPT !.windows[id].closed = TRUE]
         s2 == IF windows[id].onClosed THEN closedListener(s1) ELSE s1
     IN /\ mainWindow' = s2.mainWindow
        /\ windows' = s2.windows
  /\ winCall' = [op |-> "closed", id |-> id]
  /\ winResult' = [kind |-> "none"]
  /\ UNCHANGED <<appReady, winInitOk>>
  /\ UNCHANGED <<i18nVars, flatVars, dbVars, cfgVars>>

NextWindow ==
  \/ ready
  \/ \E pos \in PosArgs, fault \in WindowFaults : initialize(pos, fault)
  \/ getMainWindow
  \/ \E id \in 1..Len(windows) : closed(id)

SpecWindow == InitWindow /\ [][NextWindow]_vars

\* ------------------------------------------------------------------------
\* DatabaseFileManager: the user database copied from a skeleton.
\* ------------------------------------------------------------------------

\* A JavaScript boolean.
Bool(b) == [type |-> "boolean", b |-> b]

\* new DatabaseFileError(...): an ErrorWrapper of that class name.
DatabaseFileError(message, causedBy, classifier) ==
  [ErrorWrapper(message, causedBy, classifier) EXCEPT !.className = "DatabaseFileError"]

\* The fields after new DatabaseFileManager('db', '/data').
DbFileName == <<"db", DOT, "sqlite">>
DbFilePath == <<SEP, "data">>
DbTarget == pathJoin(DbFilePath, DbFileName)

\* The skeleton shipped with the application.
SkelFileName == <<"skel", DOT, "sqlite">>
SkelFilePath == <<SEP, "skel">>
Skeleton == pathJoin(SkelFilePath, SkelFileName)

\* Contents of a database file.
Pristine == <<"pristine">>
UserData == <<"user data">>

\* Where the file system fails during a call, if it does, and with which
\* error: at the access to the user database, at the access to the
\* skeleton, in mkdirp or in copyFileSync.
NoFault == [at |-> "none"]
DbFaultCodes == {S(<<"EPERM">>), S(<<"EIO">>), Undefined}
DbFaults ==
  {NoFault}
    \cup {[at |-> a, error |-> FsError(c)] :
            a \in {"access", "skelAccess", "mkdirp", "copy"}, c \in DbFaultCodes}

\* fs.accessSync(file, F_OK) on the disk st, failing with error when the
\* file system fails, with ENOENT when the file is absent.
accessSync(st, file, failing, error) ==
  IF failing THEN Throw(error)
  ELSE IF file \in DOMAIN st.disk THEN Return(Undefined)
  ELSE Throw(FsError(S(<<"ENOENT">>)))

\* The body shared by fileExist and skelFileExist: true, false, or a
\* DatabaseFileError for an error other than ENOENT.
existBody(st, file, what, failing, error) ==
  LET access == accessSync(st, file, failing, error)
      msg == <<"An error occurred verifying the ">> \o what \o <<" ">> \o file
               \o <<" existence.">>
  IN IF access.kind = "return" THEN Return(Bool(TRUE))
     ELSE IF access.error.code = S(<<"ENOENT">>) THEN Return(Bool(FALSE))
     ELSE IF access.error.code = S(<<"EPERM">>)
       THEN Throw(DatabaseFileError(msg \o <<" There was a permission problem.">>,
                                    access.error, S(<<"EPERM">>)))
     ELSE Throw(DatabaseFileError(msg \o <<" Unexpected problem.">>, access.error,
                                  IF Truthy(access.error.code) THEN access.error.code ELSE Null))

\* fileExist().
fileExistBody(st, fault) ==
  existBody(st, DbTarget, <<"database file">>, fault.at = "access",
            IF fault.at = "access" THEN fault.error ELSE Null)

\* skelFileExist(skelFilePath, skelFileName).
skelFileExist(st, skelFilePath, skelFileName, fault) ==
  existBody(st, pathJoin(skelFilePath, skelFileName), <<"skeleton database file">>,
            fault.at = "skelAccess", IF fault.at = "skelAccess" THEN fault.error ELSE Null)

\* copyFileSync(src, dest, COPYFILE_EXCL): fails when dest exists.
copyFileSync(st, src, dest, fault) ==
  IF fault.at = "copy" THEN [st |-> st, result |-> Throw(fault.error)]
  ELSE IF dest \in DOMAIN st.disk
    THEN [st |-> st, result |-> Throw(FsError(S(<<"EEXIST">>)))]
  ELSE IF src \notin DOMAIN st.disk
    THEN [st |-> st, result |-> Throw(FsError(S(<<"ENOENT">>)))]
  ELSE [st |-> [st EXCEPT !.disk = (dest :> st.disk[src]) @@ @],
        result |-> Return(Undefined)]

\* copyFileSync without COPYFILE_EXCL: replaces dest.
copyFileSync_Overwrite(st, src, dest, fault) ==
  IF fault.at = "copy" THEN [st |-> st, result |-> Throw(fault.error)]
  ELSE IF src \notin DOMAIN st.disk
    THEN [st |-> st, result |-> Throw(FsError(S(<<"ENOENT">>)))]
  ELSE [st |-> [st EXCEPT !.disk = (dest :> st.disk[src]) @@ @],
        result |-> Return(Undefined)]

\* copySkellDatabase copying without first testing that the user
\* database exists.
copySkellDatabaseBody_NoExistTest(st, skelFileName, skelFilePath, fault) ==
  IF isEmpty(skelFilePath)
    THEN [st |-> st,
          result |-> Throw(InvalidParameterError(
            <<"The path to the skeleton database file cannot be empty.">>))]
  ELSE IF isEmpty(skelFileName)
    THEN [st |-> st,
          result |-> Throw(InvalidParameterError(
            <<"The skeleton database file name cannot be empty.">>))]
  ELSE IF ~isAbsolute(skelFilePath.s)
    THEN [st |-> st,
          result |-> Throw(DatabaseFileError(
            <<"The path to the skeleton database file should be an absolute directory.">>,
            Undefined, Undefined))]
  ELSE LET skel == skelFileExist(st, skelFilePath.s, skelFileName.s, fault) IN
  IF skel.kind = "throw" THEN [st |-> st, result |-> skel]
  ELSE IF ~skel.value.b
    THEN [st |-> st,
          result |-> Throw(DatabaseFileError(
            <<"The skeleton database file ">> \o skelFileName.s
               \o <<" was not found on the path ">> \o skelFilePath.s \o <<".">>,
            Null, S(<<"ENOENT">>)))]
  ELSE IF fault.at = "mkdirp"
    THEN [st |-> st,
          result |-> Throw(DatabaseFileError(
            <<"It was not possible to create the directory ">> \o DbFilePath
               \o <<" for the database file.">>,
            fault.error, IF Truthy(fault.error.code) THEN fault.error.code ELSE Null))]
  ELSE LET s1 == [st EXCEPT !.dirs = @ \cup {DbFilePath}]
           copy == copyFileSync_Overwrite(s1, pathJoin(skelFilePath.s, skelFileName.s),
                                          DbTarget, fault)
       IN IF copy.result.kind = "throw"
            THEN [st |-> copy.st,
                  result |-> Throw(DatabaseFileError(
                    <<"An error occurred copying the skeleton database from ">>
                       \o pathJoin(skelFilePath.s, skelFileName.s) \o <<" to ">>
                       \o DbTarget \o <<".">>,
                    copy.result.error,
                    IF Truthy(copy.result.error.code) THEN copy.result.error.code ELSE Null))]
            ELSE copy

\* copySkellDatabase(skelFileName, skelFilePath).
copySkellDatabaseBody(st, skelFileName, skelFilePath, fault) ==
  IF isEmpty(skelFilePath)
    THEN [st |-> st,
          result |-> Throw(InvalidParameterError(
            <<"The path to the skeleton database file cannot be empty.">>))]
  ELSE IF isEmpty(skelFileName)
    THEN [st |-> st,
          result |-> Throw(InvalidParameterError(
            <<"The skeleton database file name cannot be empty.">>))]
  ELSE IF ~isAbsolute(skelFilePath.s)
    THEN [st |-> st,
          result |-> Throw(DatabaseFileError(
            <<"The path to the skeleton database file should be an absolute directory.">>,
            Undefined, Undefined))]
  ELSE LET exists == fileExistBody(st, fault) IN
  IF exists.kind = "throw" THEN [st |-> st, result |-> exists]
  ELSE IF exists.value.b
    THEN [st |-> st,
          result |-> Throw(DatabaseFileError(<<"The user database file already exists.">>,
                                             Undefined, Undefined))]
  ELSE LET skel == skelFileExist(st, skelFilePath.s, skelFileName.s, fault) IN
  IF skel.kind = "throw" THEN [st |-> st, result |-> skel]
  ELSE IF ~skel.value.b
    THEN [st |-> st,
          result |-> Throw(DatabaseFileError(
            <<"The skeleton database file ">> \o skelFileName.s
               \o <<" was not found on the path ">> \o skelFilePath.s \o <<".">>,
            Null, S(<<"ENOENT">>)))]
  ELSE IF fault.at = "mkdirp"
    THEN [st |-> st,
          result |-> Throw(DatabaseFileError(
            <<"It was not possible to create the directory ">> \o DbFilePath
               \o <<" for the database file.">>,
            fault.error, IF Truthy(fault.error.code) THEN fault.error.code ELSE Null))]
  ELSE LET s1 == [st EXCEPT !.dirs = @ \cup {DbFilePath}]
           copy == copyFileSync(s1, pathJoin(skelFilePath.s, skelFileName.s), DbTarget, fault)
       IN IF copy.result.kind = "throw"
            THEN [st |-> copy.st,
                  result |-> Throw(DatabaseFileError(
                    <<"An error occurred copying the skeleton database from ">>
                       \o pathJoin(skelFilePath.s, skelFileName.s) \o <<" to ">>
                       \o DbTarget \o <<".">>,
                    copy.result.error,
                    IF Truthy(copy.result.error.code) THEN copy.result.error.code ELSE Null))]
            ELSE copy

\* The disk as one record.
Disk == [dirs |-> dbDirs, disk |-> dbDisk]

\* "", undefined, "skel", "/skel" and "/data"
SkelPathArgs == {S(<<>>), Undefined, S(<<"skel">>), S(SkelFilePath), S(DbFilePath)}

\* "", "skel.sqlite" and "db.sqlite"
SkelNameArgs == {S(<<>>), S(SkelFileName), S(DbFileName)}

\* The disk when the manager is constructed: the user database may be
\* there already, the skeleton may be missing.
InitDatabase ==
  /\ I18nIdle
  /\ FlattenIdle
  /\ WindowIdle
  /\ ConfigIdle
  /\ \E target \in {NoFile, S(UserData)}, skel \in {NoFile, S(Pristine)} :
       /\ dbDisk = (IF target = NoFile THEN <<>> ELSE (DbTarget :> target.s))
                     @@ (IF skel = NoFile THEN <<>> ELSE (Skeleton :> skel.s))
       /\ dbDirs \in (IF target = NoFile THEN {{}, {DbFilePath}} ELSE {{DbFilePath}})
  /\ dbCall = [op |-> "none"]
  /\ dbResult = [kind |-> "none"]

\* The application calls fileExist().
DatabaseFileManager_fileExist(fault) ==
  /\ dbCall' = [op |-> "fileExist", fault |-> fault]
  /\ dbResult' = fileExistBody(Disk, fault)
  /\ UNCHANGED <<dbDirs, dbDisk>>
  /\ UNCHANGED <<i18nVars, flatVars, windowVars, cfgVars>>

\* The application calls copySkellDatabase(skelFileName, skelFilePath).
copySkellDatabase(skelFileName, skelFilePath, fault) ==
  LET out == copySkellDatabaseBody(Disk, skelFileName, skelFilePath, fault) IN
  /\ dbCall' = [op |-> "copySkellDatabase", skelFileName |-> skelFileName,
                skelFilePath |-> skelFilePath, fault |-> fault]
  /\ dbResult' = out.result
  /\ dbDirs' = out.st.dirs
  /\ dbDisk' = out.st.disk
  /\ UNCHANGED <<i18nVars, flatVars, windowVars, cfgVars>>

\* The application stores user data in its database.
userWrites ==
  /\ DbTarget \in DOMAIN dbDisk
  /\ dbDisk[DbTarget] # UserData
  /\ dbDisk' = [dbDisk EXCEPT ![DbTarget] = UserData]
  /\ dbCall' = [op |-> "userWrites"]
  /\ dbResult' = [kind |-> "none"]
  /\ UNCHANGED dbDirs
  /\ UNCHANGED <<i18nVars, flatVars, windowVars, cfgVars>>

NextDatabase ==
  \/ \E fault \in {f \in DbFaults : f.at \in {"none", "access"}} :
       DatabaseFileManager_fileExist(fault)
  \/ \E skelFileName \in SkelNameArgs, skelFilePath \in SkelPathArgs, fault \in DbFaults :
       copySkellDatabase(skelFileName, skelFilePath, fault)
  \/ userWrites

SpecDatabase == InitDatabase /\ [][NextDatabase]_vars

\* ------------------------------------------------------------------------
\* ConfigFileManager: the configuration file.
\* ------------------------------------------------------------------------

\* new ConfigFileError(...): the inherited constructor runs first, then
\* the subclass's field initializers assign _classifier and _className.
ConfigFileError(message, causedBy, classifier) ==
  [ErrorWrapper(message, causedBy, classifier) EXCEPT
     !.classifier = S(<<"FS_ERROR">>),
     !.className = "ConfigFileError"]

\* new InvalidParameterError(msg, trace).
InvalidParameterErrorWithTrace(message, trace) ==
  [ErrorWrapper(message, trace, Undefined) EXCEPT
     !.classifier = S(<<"RUNTIME_ERROR">>),
     !.className = "InvalidParameterError"]

\* new Error(msg).
TraceError == [type |-> "error", name |-> "Error", code |-> Undefined]

\* The fields after new ConfigFileManager('config', '/userData').
CfgFileName == <<"config", DOT, "json">>
CfgFilePath == <<SEP, "userData">>
CfgPath == pathJoin(CfgFilePath, CfgFileName)

\* The number NaN.
JNaN == [type |-> "NaN"]

\* _.isEmpty applied to the data parameter: undefined, null, a number,
\* an empty string and an object without own properties are empty.
isEmptyData(v) ==
  \/ v.type \in {"undefined", "null", "number", "NaN"}
  \/ (v.type = "string" /\ v.s = <<>>)
  \/ (v.type = "object" /\ v.props = <<>>)

\* JSON.stringify keeps a property unless its value is undefined.
Stringified(p) == p.value.type # "undefined"

\* The value JSON.parse gives back for the text JSON.stringify writes:
\* properties whose value is undefined are left out, NaN becomes null.
RECURSIVE Jsonify(_)
Jsonify(v) ==
  IF v.type = "object"
    THEN LET kept == SelectSeq(v.props, Stringified)
         IN JObj([i \in 1..Len(kept) |-> Prop(kept[i].key, Jsonify(kept[i].value))])
  ELSE IF v.type = "NaN" THEN JNull
  ELSE v

\* JSON.stringify(data): the text of the file.
JSONstringify(data) == Text(Jsonify(data))

\* Where the file system fails during a call, if it does: in accessSync,
\* readFileSync, mkdirp or writeFileSync.
CfgFaults ==
  {NoFault}
    \cup {[at |-> a, error |-> FsError(c)] :
            a \in {"access", "read", "mkdirp", "write"}, c \in DbFaultCodes}

\* The directory and the file as one record.
ConfigDisk == [dir |-> cfgDir, file |-> cfgFile]

\* ConfigFileManager.fileExist().
ConfigFileManager_fileExistBody(st, fault) ==
  LET msg == <<"An error occurred verifying the configuration file ">> \o CfgPath
               \o <<" existence.">>
  IN IF fault.at = "access"
       THEN IF fault.error.code = S(<<"EPERM">>)
              THEN Throw(ConfigFileError(msg \o <<" There was a permission problem.">>,
                                         fault.error, S(<<"EPERM">>)))
              ELSE Throw(ConfigFileError(msg \o <<" Unexpected problem.">>, fault.error,
                           IF Truthy(fault.error.code) THEN fault.error.code ELSE Null))
     ELSE IF st.file = NoFile THEN Return(Bool(FALSE))
     ELSE Return(Bool(TRUE))

\* ConfigFileManager.readFile().
readFileBody(st, fault) ==
  LET msg == <<"An error occurred reading the configuration file ">> \o CfgPath \o <<".">>
      rawData == IF fault.at = "read" THEN Throw(fault.error)
                 ELSE IF st.file = NoFile THEN Throw(FsError(S(<<"ENOENT">>)))
                 ELSE Return(st.file)
  IN IF rawData.kind = "throw"
       THEN IF rawData.error.code = S(<<"ENOENT">>)
              THEN Throw(ConfigFileError(msg \o <<" The config file does not exist.">>,
                                         rawData.error, rawData.error.code))
            ELSE IF rawData.error.code = S(<<"EPERM">>)
              THEN Throw(ConfigFileError(msg \o <<" There was a permission problem.">>,
                                         rawData.error, rawData.error.code))
            ELSE Throw(ConfigFileError(msg \o <<" Unexpected problem.">>, rawData.error,
                         IF Truthy(rawData.error.code) THEN rawData.error.code ELSE Null))
     ELSE LET data == JSONparse(rawData.value)
          IN IF data.kind = "throw"
               THEN Throw(ConfigFileError(
                      <<"It was not possible to read the configuration file ">> \o CfgPath
                         \o <<". It could be corrupted.">>,
                      data.error, S(<<"PARSE_ERROR">>)))
               ELSE data

\* writeFile keeping the content of a file that already exists.
writeFileBody_KeepExisting(st, data, fault) ==
  IF isEmptyData(data)
    THEN [st |-> st,
          result |-> Throw(InvalidParameterErrorWithTrace(
            <<"The data parameter must be informed.">>, TraceError))]
  ELSE LET jsonData == JSONstringify(data) IN
  IF fault.at = "mkdirp"
    THEN [st |-> st,
          result |-> Throw(ConfigFileError(
            <<"It was not possible to create the directory ">> \o CfgFilePath
               \o <<" for the config file.">>,
            fault.error, IF Truthy(fault.error.code) THEN fault.error.code ELSE Null))]
  ELSE LET s1 == [st EXCEPT !.dir = TRUE]
           msg == <<"An error occurred writing the configuration file ">> \o CfgPath \o <<".">>
       IN IF fault.at = "write"
            THEN [st |-> s1,
                  result |-> Throw(
                    IF fault.error.code = S(<<"EPERM">>)
                      THEN ConfigFileError(msg \o <<" There was a permission problem.">>,
                                           fault.error, fault.error.code)
                      ELSE ConfigFileError(msg \o <<" Unexpected problem.">>, fault.error,
                             IF Truthy(fault.error.code) THEN fault.error.code ELSE Null))]
            ELSE [st |-> IF s1.file = NoFile THEN [s1 EXCEPT !.file = jsonData] ELSE s1,
                  result |-> Return(Undefined)]

\* ConfigFileManager.writeFile(data).
writeFileBody(st, data, fault) ==
  IF isEmptyData(data)
    THEN [st |-> st,
          result |-> Throw(InvalidParameterErrorWithTrace(
            <<"The data parameter must be informed.">>, TraceError))]
  ELSE LET jsonData == JSONstringify(data) IN
  IF fault.at = "mkdirp"
    THEN [st |-> st,
          result |-> Throw(ConfigFileError(
            <<"It was not possible to create the directory ">> \o CfgFilePath
               \o <<" for the config file.">>,
            fault.error, IF Truthy(fault.error.code) THEN fault.error.code ELSE Null))]
  ELSE LET s1 == [st EXCEPT !.dir = TRUE]
           msg == <<"An error occurred writing the configuration file ">> \o CfgPath \o <<".">>
       IN IF fault.at = "write"
            THEN [st |-> s1,
                  result |-> Throw(
                    IF fault.error.code = S(<<"EPERM">>)
                      THEN ConfigFileError(msg \o <<" There was a permission problem.">>,
                                           fault.error, fault.error.code)
                      ELSE ConfigFileError(msg \o <<" Unexpected problem.">>, fault.error,
                             IF Truthy(fault.error.code) THEN fault.error.code ELSE Null))]
            ELSE [st |-> [s1 EXCEPT !.file = jsonData],
                  result |-> Return(Undefined)]

\* { "lang": "en" }
CfgEn == JObj(<<Prop(<<"lang">>, JStr(EN))>>)

\* { "lang": "fr", "window": { "theme": "dark", "zoom": null } }
CfgFr ==
  JObj(<<Prop(<<"lang">>, JStr(FR)),
         Prop(<<"window">>, JObj(<<Prop(<<"theme">>, JStr(<<"dark">>)),
                                   Prop(<<"zoom">>, JNull)>>))>>)

\* { "lang": "en", "theme": undefined }
CfgUndefinedProp == JObj(<<Prop(<<"lang">>, JStr(EN)), Prop(<<"theme">>, Undefined)>>)

\* { "zoom": NaN }
CfgNaN == JObj(<<Prop(<<"zoom">>, JNaN)>>)

\* The data parameter: undefined, null, {} and the objects above.
CfgDataArgs == {Undefined, Null, JObj(<<>>), CfgEn, CfgFr, CfgUndefinedProp, CfgNaN}

\* The disk when the manager is constructed: no directory, an empty
\* directory, or a configuration file, corrupted or not.
InitConfig ==
  /\ I18nIdle
  /\ FlattenIdle
  /\ WindowIdle
  /\ DatabaseIdle
  /\ \E file \in {NoFile, Malformed, Text(CfgEn)} :
       /\ cfgFile = file
       /\ cfgDir \in (IF file = NoFile THEN BOOLEAN ELSE {TRUE})
  /\ cfgLastData = Undefined
  /\ cfgCall = [op |-> "none"]
  /\ cfgResult = [kind |-> "none"]

\* The application calls fileExist().
ConfigFileManager_fileExist(fault) ==
  /\ cfgCall' = [op |-> "fileExist", fault |-> fault]
  /\ cfgResult' = ConfigFileManager_fileExistBody(ConfigDisk, fault)
  /\ UNCHANGED <<cfgDir, cfgFile, cfgLastData>>
  /\ UNCHANGED <<i18nVars, flatVars, windowVars, dbVars>>

\* The application calls readFile().
readFile(fault) ==
  /\ cfgCall' = [op |-> "readFile", fault |-> fault]
  /\ cfgResult' = readFileBody(ConfigDisk, fault)
  /\ UNCHANGED <<cfgDir, cfgFile, cfgLastData>>
  /\ UNCHANGED <<i18nVars, flatVars, windowVars, dbVars>>

\* The application calls writeFile(data).
writeFile(data, fault) ==
  LET out == writeFileBody(ConfigDisk, data, fault) IN
  /\ cfgCall' = [op |-> "writeFile", data |-> data, fault |-> fault]
  /\ cfgResult' = out.result
  /\ cfgDir' = out.st.dir
  /\ cfgFile' = out.st.file
  /\ cfgLastData' = IF out.result.kind = "return" THEN data ELSE cfgLastData
  /\ UNCHANGED <<i18nVars, flatVars, windowVars, dbVars>>

NextConfig ==
  \/ \E fault \in {f \in CfgFaults : f.at \in {"none", "access"}} :
       ConfigFileManager_fileExist(fault)
  \/ \E fault \in {f \in CfgFaults : f.at \in {"none", "read"}} : readFile(fault)
  \/ \E data \in CfgDataArgs, fault \in {f \in CfgFaults : f.at \in {"none", "mkdirp", "write"}} :
       writeFile(data, fault)

SpecConfig == InitConfig /\ [][NextConfig]_vars

\* ------------------------------------------------------------------------
\* Properties.
\* ------------------------------------------------------------------------

\* The class of a thrown error: className of an ErrorWrapper, name of a
\* platform error.
ErrorClass(e) == IF "className" \in DOMAIN e THEN e.className ELSE e.name

ThrewI18nError == result.kind = "throw" /\ ErrorClass(result.error) = "I18nError"

\* sub occurs in str as a contiguous run of tokens.
Contains(str, sub) ==
  \E i \in 0..(Len(str) - Len(sub)) : SubSeq(str, i + 1, i + Len(sub)) = sub

\* The last call was t(key) on an initialized engine.
Translated(key) == initialized /\ call.op = "t" /\ call.arg = S(key)

\* C1: Fallback law.  When the current language is not the fallback
\* language, t(k) of a key k that the fallback messages hold and the
\* messages in use do not returns the fallback's value for k.
C1_FallbackLaw ==
  \A k \in Keys :
    (/\ Translated(k)
     /\ usingLanguage # options.fallbackLng.s
     /\ MapHas(fallBackMessages.m, k)
     /\ ~MapHas(usingMessages.m, k))
    => result = Return(fallBackMessages.m[k])

\* C2: t(k) of a non-empty key k that the messages in use hold returns
\* the value they map k to, the empty string included.
C2_ActiveLookup ==
  \A k \in Keys :
    (Translated(k) /\ k # <<>> /\ MapHas(usingMessages.m, k))
    => result = Return(usingMessages.m[k])

\* C3: Missing-key identity law.  t(k) of a non-empty key k that neither
\* the messages in use nor the fallback messages hold returns k itself.
C3_MissingKeyIdentity ==
  \A k \in Keys :
    (/\ Translated(k)
     /\ k # <<>>
     /\ ~MapHas(usingMessages.m, k)
     /\ ~MapHas(fallBackMessages.m, k))
    => result = Return(k)

\* A key missing from both mappings was translated while the language in
\* use was not the fallback language.
C3_Witness ==
  /\ Translated(<<"missing">>)
  /\ usingLanguage # options.fallbackLng.s
  /\ ~MapHas(usingMessages.m, <<"missing">>)
  /\ ~MapHas(fallBackMessages.m, <<"missing">>)
  /\ result = Return(<<"missing">>)

\* C4: an init call that fails on a not yet initialized engine leaves the
\* engine uninitialized and retains nothing: the languages loaded, the
\* messages loaded, the fallback messages, the messages in use and the
\* language in use are as they were before the call.
C4_FailedInitRetainsNothing ==
  [][(~initialized /\ call'.op = "init" /\ result'.kind = "throw")
       => /\ ~initialized'
          /\ UNCHANGED <<languagesLoaded, messagesLoaded, fallBackMessages,
                         usingMessages, usingLanguage>>]_vars

\* C5: whenever the engine is initialized, the language in use is one of
\* the languages loaded.
C5_UsingLanguageLoaded ==
  initialized => ~NotInArray(languagesLoaded, usingLanguage)

\* The listing of dir names the translation file of language id.
HasFileFor(dir, id) ==
  \E i \in 1..Len(dir.list.value) : dir.list.value[i] = FileName(id)

\* The last call was an init call that went on to list a directory, and
\* the listing succeeded.
Scanned ==
  call.op = "init" /\ call.dir # Undefined /\ call.dir.list.kind = "return"

\* C6: an init call on a not yet initialized engine that scans a
\* directory holding no translation file for the configured language, or
\* none for the configured fallback language, fails with I18nError and
\* leaves the engine uninitialized.
C6_MissingLanguageFails ==
  (/\ Scanned
   /\ \/ ~HasFileFor(call.dir, options.lng.s)
      \/ ~HasFileFor(call.dir, options.fallbackLng.s))
  => (ThrewI18nError /\ ~initialized)

\* C7: Double-init rejection.  An init call on an initialized engine
\* throws I18nError whatever its argument is and changes no field.
C7_DoubleInitRejected ==
  [][(initialized /\ call'.op = "init")
       => /\ result'.kind = "throw"
          /\ ErrorClass(result'.error) = "I18nError"
          /\ UNCHANGED engine]_vars

\* An initialized engine rejected an init call that asked for another
\* language than the one in use.
C7_Witness ==
  /\ initialized
  /\ call.op = "init"
  /\ call.arg # Undefined
  /\ Truthy(call.arg.lng)
  /\ call.arg.lng.s # usingLanguage
  /\ ThrewI18nError

\* C8: while no init call has succeeded, t and changeLanguage throw
\* I18nError for every argument, the empty string included.
C8_UseBeforeInit ==
  (~initialized /\ call.op \in {"t", "changeLanguage"}) => ThrewI18nError

\* t("") was called after a failed init call and threw I18nError.
C8_Witness ==
  /\ ~initialized
  /\ initCalls > 0
  /\ call.op = "t"
  /\ call.arg = S(<<>>)
  /\ ThrewI18nError

\* name is a translation file name, messages.<id>.json.
Recognized(name) == \E id \in {EN, FR, DE} : name = FileName(id)

\* The translation files listed before position i were read and parsed.
LoadedBefore(dir, i) ==
  \A j \in 1..(i - 1) :
    Recognized(dir.list.value[j])
      => /\ dir.read[dir.list.value[j]].kind = "return"
         /\ dir.read[dir.list.value[j]].value.wellFormed

\* The scan reaches, at position i, a translation file whose text is not
\* valid JSON.
ParseFailureAt(dir, i) ==
  /\ Recognized(dir.list.value[i])
  /\ dir.read[dir.list.value[i]] = Return(Malformed)
  /\ LoadedBefore(dir, i)

\* The scan reaches, at position i, a translation file that cannot be read.
ReadFailureAt(dir, i) ==
  /\ Recognized(dir.list.value[i])
  /\ dir.read[dir.list.value[i]].kind = "throw"
  /\ LoadedBefore(dir, i)

\* The positions of the listing scanned by the last call.
ScannedPositions == IF Scanned THEN 1..Len(call.dir.list.value) ELSE {}

\* C9: when a translation file's text is not valid JSON, init throws an
\* I18nError whose classifier is PARSE_ERROR, whose message names the
\* path of the file and whose cause is the parse exception, and the
\* engine stays uninitialized.
C9_ParseErrorSubcode ==
  \A i \in ScannedPositions :
    ParseFailureAt(call.dir, i)
      => /\ ThrewI18nError
         /\ classifierOf(result.error) = S(<<"PARSE_ERROR">>)
         /\ causedByOf(result.error) = SyntaxError
         /\ Contains(messageOf(result.error),
                     pathJoin(options.loadPath.s, call.dir.list.value[i]))
         /\ ~initialized

\* The subcode an I18nError is given for a file system error: the code
\* of the error (ENOENT, EPERM or another one), or none.
Subcode(error) == IF Truthy(error.code) THEN error.code ELSE Null

\* The last call threw an I18nError that wraps error under its subcode.
ThrewFsFailure(error) ==
  /\ ThrewI18nError
  /\ causedByOf(result.error) = error
  /\ classifierOf(result.error) = Subcode(error)

\* C10: when listing the load directory or reading a translation file
\* fails, init throws an I18nError whose cause is the file system error
\* and whose classifier is the code of that error, or none.
C10_FsErrorSubcode ==
  /\ (call.op = "init" /\ call.dir # Undefined /\ call.dir.list.kind = "throw")
       => ThrewFsFailure(call.dir.list.error)
  /\ \A i \in ScannedPositions :
       ReadFailureAt(call.dir, i)
         => ThrewFsFailure(call.dir.read[call.dir.list.value[i]].error)

\* C11: every failure of init is signalled as an InvalidParameterError or
\* an I18nError, whatever the options and the directory content are, a
\* translation file holding a null, a number or a boolean included.
C11_InitErrorKinds ==
  (call.op = "init" /\ result.kind = "throw")
    => ErrorClass(result.error) \in {"InvalidParameterError", "I18nError"}

\* The last call was changeLanguage(id); primed, the call of the step.
ChangedLanguage(id) == call.op = "changeLanguage" /\ call.arg = S(id)

\* C12: changeLanguage(id) with a non-empty id that is not among the
\* languages loaded throws I18nError and leaves the language in use and
\* the messages in use unchanged.
C12_UnloadedLanguageRejected ==
  [][\A id \in LanguageIds :
       (/\ initialized
        /\ ChangedLanguage(id)'
        /\ id # <<>>
        /\ NotInArray(languagesLoaded, id))
       => /\ result'.kind = "throw"
          /\ ErrorClass(result'.error) = "I18nError"
          /\ UNCHANGED <<usingLanguage, usingMessages>>]_vars

\* changeLanguage("de") was rejected on an initialized engine that never
\* loaded "de".
C12_Witness ==
  /\ initialized
  /\ ChangedLanguage(DE)
  /\ NotInArray(languagesLoaded, DE)
  /\ ThrewI18nError

\* C13: Idempotent no-op switch.  On an initialized engine,
\* changeLanguage(the language in use) returns normally and changes no
\* field.
C13_NoOpSwitch ==
  [][(initialized /\ call'.op = "changeLanguage" /\ call'.arg = S(usingLanguage))
       => (result' = Return(Undefined) /\ UNCHANGED engine)]_vars

\* C19: on an initialized engine changeLanguage("") throws
\* InvalidParameterError and leaves the language in use and the messages
\* in use unchanged.
C19_EmptyLanguageIdRejected ==
  [][(initialized /\ ChangedLanguage(<<>>)')
       => /\ result'.kind = "throw"
          /\ ErrorClass(result'.error) = "InvalidParameterError"
          /\ UNCHANGED <<usingLanguage, usingMessages>>]_vars

\* changeLanguage("") was rejected with InvalidParameterError on an
\* initialized engine.
C19_Witness ==
  /\ initialized
  /\ ChangedLanguage(<<>>)
  /\ result.kind = "throw"
  /\ ErrorClass(result.error) = "InvalidParameterError"

\* C14: Empty-key law.  On an initialized engine t("") returns the empty
\* string, even when the messages hold an entry for the empty key.
C14_EmptyKeyLaw == Translated(<<>>) => result = Return(<<>>)

\* t("") returned "" although the messages in use map the empty key.
C14_Witness ==
  /\ Translated(<<>>)
  /\ MapHas(usingMessages.m, <<>>)
  /\ result = Return(<<>>)

\* v is a string of the program.
IsString(v) == v \in Seq(STRING)

\* C15: once the engine is initialized the messages in use and the
\* fallback messages are both defined, and t returns a string and never
\* throws, whatever calls (failed ones included) came before.
C15_TranslateNeverFails ==
  initialized
    => /\ usingMessages # Undefined
       /\ fallBackMessages # Undefined
       /\ call.op = "t" => (result.kind = "return" /\ IsString(result.value))

\* t answered on an engine that was initialized after a failed init call.
C15_Witness ==
  /\ initialized
  /\ initCalls > 1
  /\ call.op = "t"
  /\ call.arg # S(<<>>)
  /\ result.kind = "return"

\* The rule of the naming convention: splitting the name on "." yields
\* exactly 3 parts, the first "messages" and the last "json".
NamedAsTranslation(name) ==
  LET parts == split(name, DOT)
  IN Len(parts) = 3 /\ parts[1] = <<"messages">> /\ parts[3] = <<"json">>

\* The language identifiers of the entries of a listing that follow the
\* naming convention, in listing order.
RECURSIVE NamedLanguages(_)
NamedLanguages(list) ==
  IF list = <<>> THEN <<>>
  ELSE IF NamedAsTranslation(Head(list))
    THEN <<split(Head(list), DOT)[2]>> \o NamedLanguages(Tail(list))
    ELSE NamedLanguages(Tail(list))

\* Every entry of dir that follows the naming convention can be read,
\* parsed and flattened.
AllNamedLoadable(dir) ==
  \A i \in 1..Len(dir.list.value) :
    NamedAsTranslation(dir.list.value[i])
      => /\ dir.read[dir.list.value[i]].kind = "return"
         /\ dir.read[dir.list.value[i]].value.wellFormed
         /\ objectToMap(dir.read[dir.list.value[i]].value.json, Undefined).kind = "return"

\* C16: a directory entry is loaded if and only if it follows the naming
\* convention; every other entry is skipped without an error and adds
\* nothing to the languages loaded nor to any mapping.
C16_RecognizedFiles ==
  [][(/\ ~initialized
      /\ Scanned'
      /\ AllNamedLoadable(call'.dir))
     => LET ids == NamedLanguages(call'.dir.list.value)
        IN /\ languagesLoaded' = languagesLoaded \o ids
           /\ DOMAIN messagesLoaded'
                = DOMAIN messagesLoaded
                    \cup {ids[i] : i \in {j \in 1..Len(ids) : ids[j] # options'.fallbackLng.s}}
           /\ result'.kind = "throw"
                => (ThrewI18nError' /\ causedByOf(result'.error) = Null)]_vars

\* The directory with both translation files and five other entries was
\* scanned, and exactly "en" and "fr" were loaded.
C16_Witness ==
  /\ Scanned
  /\ call.dir = DirOk
  /\ initialized
  /\ languagesLoaded = <<EN, FR>>

\* C20: an init call without lng (absent or empty) uses "en" as the
\* language, one without fallbackLng uses "en" as the fallback language;
\* the call succeeds exactly when the directory holds the translation
\* file of the language and that of the fallback language (messages.en.json
\* for a defaulted one), and then the language in use, respectively the
\* fallback language, is "en".
C20_DefaultLanguages ==
  (Scanned /\ (isEmpty(call.arg.lng) \/ isEmpty(call.arg.fallbackLng)))
  => /\ isEmpty(call.arg.lng) => (options.lng = S(EN) /\ usingLanguage = EN)
     /\ isEmpty(call.arg.fallbackLng) => options.fallbackLng = S(EN)
     /\ AllNamedLoadable(call.dir)
          => (result.kind = "return"
                <=> /\ HasFileFor(call.dir, options.lng.s)
                    /\ HasFileFor(call.dir, options.fallbackLng.s))

\* The leaves of an object: each with the keys that lead to it.
RECURSIVE LeavesUnder(_, _)
LeavesUnder(obj, path) ==
  UNION {LET p == obj.props[i]
         IN IF p.value.type = "string"
              THEN {<<Append(path, p.key), p.value.s>>}
              ELSE LeavesUnder(p.value, Append(path, p.key)) :
         i \in 1..Len(obj.props)}

\* The keys k1, ..., kn joined by ".".
DottedKey(path) == join(path, DOT)

\* C17: flattening an object whose leaves are all strings maps the leaf
\* reached through the keys k1, ..., kn to the key "k1.k2. ... .kn" with
\* the leaf's string as value, and yields no other entry.
C17_FlattenKeys ==
  flatResult.kind # "none"
    => /\ flatResult.kind = "return"
       /\ \A leaf \in LeavesUnder(flatObj, <<>>) :
            /\ MapHas(flatResult.value, DottedKey(leaf[1]))
            /\ flatResult.value[DottedKey(leaf[1])] = leaf[2]
       /\ \A k \in DOMAIN flatResult.value :
            \E leaf \in LeavesUnder(flatObj, <<>>) : DottedKey(leaf[1]) = k

\* An object as a tree: a leaf holds a string, an inner node maps each
\* key to a subtree (the order of the properties is left out).
TreeLeaf(s) == [leaf |-> TRUE, s |-> s]
TreeNode(kids) == [leaf |-> FALSE, kids |-> kids]

RECURSIVE ObjTree(_)
ObjTree(obj) ==
  TreeNode([k \in {obj.props[i].key : i \in 1..Len(obj.props)} |->
              LET p == obj.props[CHOOSE i \in 1..Len(obj.props) : obj.props[i].key = k]
              IN IF p.value.type = "string" THEN TreeLeaf(p.value.s) ELSE ObjTree(p.value)])

\* Re-nesting: entries are pairs <<parts of a key split on ".", value>>.
RECURSIVE Renest(_)
Renest(entries) ==
  TreeNode([h \in {e[1][1] : e \in entries} |->
              LET sub == {e \in entries : e[1][1] = h}
                  ends == {e \in sub : Len(e[1]) = 1}
              IN IF ends # {} THEN TreeLeaf((CHOOSE e \in ends : TRUE)[2])
                 ELSE Renest({<<Tail(e[1]), e[2]>> : e \in sub})])

\* C18: Round-trip flattening.  Flattening an object with string leaves
\* and re-nesting the result by splitting every key on "." gives back an
\* object equal to the original.
C18_RoundTrip ==
  flatResult.kind # "none"
    => /\ flatResult.kind = "return"
       /\ Renest({<<split(k, DOT), flatResult.value[k]>> : k \in DOMAIN flatResult.value})
            = ObjTree(flatObj)

\* The messages that belong to the language in use: the fallback messages
\* for the fallback language, else the mapping loaded for the language.
MessagesOfLanguageInUse ==
  IF usingLanguage = options.fallbackLng.s THEN fallBackMessages
  ELSE IF MapHas(messagesLoaded, usingLanguage) THEN MapObj(messagesLoaded[usingLanguage])
  ELSE Undefined

\* C26: in every initialized state the messages in use are the fallback
\* messages when the language in use is the fallback language, and the
\* mapping loaded for the language in use otherwise.
C26_ActiveMessages == initialized => usingMessages = MessagesOfLanguageInUse

\* C27: in every initialized state the configured fallback language is
\* not a key of the loaded messages: no language has its mapping both
\* there and as the fallback messages.
C27_FallbackHeldApart == initialized => ~MapHas(messagesLoaded, options.fallbackLng.s)

\* The scan of dir meets its first failure at position i: a translation
\* file that cannot be read or parsed, every translation file before it
\* having been read, parsed and flattened.
FirstFailureAt(dir, i) ==
  /\ ParseFailureAt(dir, i) \/ ReadFailureAt(dir, i)
  /\ \A j \in 1..(i - 1) :
       Recognized(dir.list.value[j])
         => objectToMap(dir.read[dir.list.value[j]].value.json, Undefined).kind = "return"

\* The error init reports for the failure at position i of dir.
FailureCause(dir, i) ==
  IF dir.read[dir.list.value[i]].kind = "throw"
    THEN dir.read[dir.list.value[i]].error
    ELSE SyntaxError

\* C28: init processes the files in listing order and stops at the first
\* read or parse failure: the languages of the files before it are loaded,
\* no later file is, and the error thrown is that read or parse error (it
\* has a cause), never a missing-language error, also when the directory
\* has no file for the language in use or for the fallback language.
C28_FirstFailureAborts ==
  [][\A i \in ScannedPositions' :
       (~initialized /\ FirstFailureAt(call'.dir, i))
         => /\ ThrewI18nError'
            /\ causedByOf(result'.error) = FailureCause(call'.dir, i)
            /\ languagesLoaded'
                 = languagesLoaded \o NamedLanguages(SubSeq(call'.dir.list.value, 1, i - 1))
            /\ ~initialized']_vars

\* init met a malformed first file in a directory that has no file for
\* the language in use, and a readable file listed after it.
C28_Witness ==
  /\ Scanned
  /\ call.dir = DirParseNoEn
  /\ usingLanguage = EN
  /\ ThrewI18nError
  /\ causedByOf(result.error) = SyntaxError

\* C29: a changeLanguage call that fails on an initialized engine leaves
\* the language in use and the messages in use as they were.
C29_FailedChangeKeepsState ==
  [][(/\ initialized
      /\ call'.op = "changeLanguage"
      /\ result'.kind = "throw")
     => (usingLanguage' = usingLanguage /\ usingMessages' = usingMessages)]_vars

\* A main window is held.
WindowHeld == mainWindow.type = "window"

\* C21: initialize called while a main window is held throws
\* MainWindowAlreadyInitializedError, creates no window and leaves the
\* held window reference unchanged.
C21_SecondInitializeRejected ==
  [][(WindowHeld /\ winCall'.op = "initialize")
     => /\ winResult' = Throw(MainWindowAlreadyInitializedError)
        /\ windows' = windows
        /\ mainWindow' = mainWindow]_vars

\* initialize was rejected while a window created by an earlier
\* successful initialize was held.
C21_Witness ==
  /\ winCall.op = "initialize"
  /\ winResult = Throw(MainWindowAlreadyInitializedError)
  /\ mainWindow = Window(1)
  /\ 1 \in winInitOk

\* The windows created by a successful initialize whose 'closed' event
\* has not fired.
LiveWindows == {id \in winInitOk : ~windows[id].closed}

\* C22: the mainWindow accessor throws MainWindowNotInitializedError
\* before any successful initialize and after the window's 'closed' event,
\* and returns the created window between a successful initialize and its
\* 'closed' event.
C22_AccessorFollowsLifecycle ==
  winCall.op = "mainWindow"
    => IF LiveWindows = {}
         THEN winResult = Throw(MainWindowNotInitializedError)
         ELSE \E id \in LiveWindows : winResult = Return(Window(id))

\* C30: after an initialize that failed with UnexpectedError or with
\* AppNotReadyError no main window is held: the accessor throws
\* MainWindowNotInitializedError and a later initialize is not rejected
\* with MainWindowAlreadyInitializedError.
C30_FailedInitializeHoldsNothing ==
  (/\ winCall.op = "initialize"
   /\ winResult.kind = "throw"
   /\ ErrorClass(winResult.error) \in {"UnexpectedError", "AppNotReadyError"})
  => /\ mainWindowGetter(Controller) = Throw(MainWindowNotInitializedError)
     /\ \A pos \in PosArgs, fault \in WindowFaults :
          initializeBody(Controller, pos, fault).result
            # Throw(MainWindowAlreadyInitializedError)

\* The user database file is on disk.
TargetExists == DbTarget \in DOMAIN dbDisk

\* The skeleton file named by the arguments of the copySkellDatabase call
\* c is on the disk.
SkeletonExists(c, disk) ==
  /\ ~isEmpty(c.skelFileName)
  /\ ~isEmpty(c.skelFilePath)
  /\ pathJoin(c.skelFilePath.s, c.skelFileName.s) \in DOMAIN disk

ThrewDatabaseFileError ==
  dbResult.kind = "throw" /\ ErrorClass(dbResult.error) = "DatabaseFileError"

\* C23: copySkellDatabase never overwrites an existing user database.  If
\* the target file exists the call fails with DatabaseFileError and the
\* target's content is unchanged; if the skeleton file does not exist the
\* call fails with DatabaseFileError and no target file is created; after
\* a successful copy fileExist() returns true and any further
\* copySkellDatabase call fails.
C23_NeverOverwrites ==
  [][/\ TargetExists => TargetExists'
     /\ dbCall'.op = "copySkellDatabase"
          => /\ TargetExists
                  => (ThrewDatabaseFileError' /\ dbDisk'[DbTarget] = dbDisk[DbTarget])
             /\ ~SkeletonExists(dbCall', dbDisk)
                  => (ThrewDatabaseFileError' /\ (TargetExists' <=> TargetExists))
             /\ dbResult'.kind = "return" => TargetExists'
     /\ (dbCall'.op = "fileExist" /\ dbCall'.fault = NoFault /\ TargetExists)
          => dbResult' = Return(Bool(TRUE))]_vars

\* The failure the documentation gives for the arguments of the call c:
\* InvalidParameterError for an empty argument, DatabaseFileError else.
CopyFailureClass(c) ==
  IF isEmpty(c.skelFilePath) \/ isEmpty(c.skelFileName)
    THEN "InvalidParameterError" ELSE "DatabaseFileError"

\* C23 as amended: the same, the failure being an InvalidParameterError
\* when skelFileName or skelFilePath is empty and a DatabaseFileError
\* otherwise.
C23_NeverOverwritesAmended ==
  [][/\ TargetExists => TargetExists'
     /\ dbCall'.op = "copySkellDatabase"
          => /\ TargetExists
                  => /\ dbResult'.kind = "throw"
                     /\ ErrorClass(dbResult'.error) = CopyFailureClass(dbCall')
                     /\ dbDisk'[DbTarget] = dbDisk[DbTarget]
             /\ ~SkeletonExists(dbCall', dbDisk)
                  => /\ dbResult'.kind = "throw"
                     /\ ErrorClass(dbResult'.error) = CopyFailureClass(dbCall')
                     /\ TargetExists' <=> TargetExists
             /\ dbResult'.kind = "return"
                  => (TargetExists' /\ dbDisk'[DbTarget] = dbDisk'[Skeleton])
     /\ (dbCall'.op = "fileExist" /\ dbCall'.fault = NoFault /\ TargetExists)
          => dbResult' = Return(Bool(TRUE))]_vars

\* A copy of the skeleton was refused because the user database, the
\* product of an earlier successful copy, exists.
C23_Witness ==
  /\ dbCall.op = "copySkellDatabase"
  /\ dbCall.skelFileName = S(SkelFileName)
  /\ dbCall.skelFilePath = S(SkelFilePath)
  /\ dbCall.fault = NoFault
  /\ ThrewDatabaseFileError
  /\ TargetExists
  /\ dbDisk[DbTarget] = Pristine
  /\ Skeleton \in DOMAIN dbDisk

\* The last ConfigFileManager call threw a ConfigFileError of the given
\* type (classifier) that keeps error as its cause.
ThrewConfigFileError(classifier, error) ==
  /\ cfgResult.kind = "throw"
  /\ ErrorClass(cfgResult.error) = "ConfigFileError"
  /\ classifierOf(cfgResult.error) = classifier
  /\ causedByOf(cfgResult.error) = error

\* The last ConfigFileManager call met a file system error with code EPERM.
PermissionFault == cfgCall.fault # NoFault /\ cfgCall.fault.error.code = S(<<"EPERM">>)

\* C24: fileExist() returns false when the file is absent and throws a
\* ConfigFileError of type EPERM on a permission error; readFile() throws
\* a ConfigFileError of type ENOENT when the file does not exist, EPERM on
\* a permission error and PARSE_ERROR when the content is not valid JSON;
\* the original error is kept as the cause in every case.
C24_ConfigErrorTypes ==
  /\ cfgCall.op = "fileExist"
       => /\ (cfgCall.fault = NoFault /\ cfgFile = NoFile) => cfgResult = Return(Bool(FALSE))
          /\ PermissionFault => ThrewConfigFileError(S(<<"EPERM">>), cfgCall.fault.error)
  /\ cfgCall.op = "readFile"
       => /\ (cfgCall.fault = NoFault /\ cfgFile = NoFile)
               => ThrewConfigFileError(S(<<"ENOENT">>), FsError(S(<<"ENOENT">>)))
          /\ PermissionFault => ThrewConfigFileError(S(<<"EPERM">>), cfgCall.fault.error)
          /\ (cfgCall.fault = NoFault /\ cfgFile = Malformed)
               => ThrewConfigFileError(S(<<"PARSE_ERROR">>), SyntaxError)

\* The file system fails during the writeFile call c.
WriteFault(c) == c.fault.at \in {"mkdirp", "write"}

\* The steps of C25 for the data objects that satisfy Covered: a
\* writeFile of such an object that meets no file system error returns,
\* and then fileExist() returns true and readFile() returns an object
\* equal to it; readFile() returns the data of the most recent successful
\* writeFile; writeFile of data not informed throws InvalidParameterError
\* and leaves the file as it was.
RoundTripStep(Covered(_)) ==
  /\ (cfgCall'.op = "writeFile" /\ ~isEmptyData(cfgCall'.data)
        /\ Covered(cfgCall'.data) /\ ~WriteFault(cfgCall'))
       => /\ cfgResult' = Return(Undefined)
          /\ ConfigFileManager_fileExistBody(ConfigDisk', NoFault) = Return(Bool(TRUE))
          /\ readFileBody(ConfigDisk', NoFault) = Return(cfgCall'.data)
  /\ (cfgCall'.op = "readFile" /\ cfgCall'.fault = NoFault
        /\ cfgLastData # Undefined /\ Covered(cfgLastData))
       => cfgResult' = Return(cfgLastData)
  /\ (cfgCall'.op = "writeFile" /\ isEmptyData(cfgCall'.data))
       => /\ cfgResult'.kind = "throw"
          /\ ErrorClass(cfgResult'.error) = "InvalidParameterError"
          /\ cfgFile' = cfgFile /\ cfgDir' = cfgDir

AnyData(d) == TRUE

RECURSIVE JsonValue(_)
JsonValue(d) ==
  IF d.type = "object"
    THEN \A i \in 1..Len(d.props) : JsonValue(d.props[i].value)
    ELSE d.type \in {"string", "number", "null"}

====
